---- MODULE Spec2Model ----
(***************************************************************************)
(* Model of Main.py, the command-line inference script of the consensus    *)
(* QSAR model for antioxidant activity (DPPH IC50).                        *)
(*                                                                         *)
(* One invocation of the script is a straight-line run through the stages  *)
(* of the __main__ block.  The model has one action per stage, one action  *)
(* per way a stage raises, one for the start of an invocation and one for  *)
(* the calendar.  The file system (the spreadsheets in the working         *)
(* directory and the output files) persists from one invocation to the     *)
(* next.                                                                   *)
(*                                                                         *)
(* Text is modelled as sequences of one-character strings, so that the     *)
(* substring test of line 185 and the file names of lines 273 and 276 are  *)
(* computed, not assumed.  Floating-point numbers are modelled as exact    *)
(* fixed-point values (see "Numbers"), so that rounding is computed too.   *)
(***************************************************************************)
EXTENDS Integers, Sequences, FiniteSets, TLC

\* ------------------------------------------------------------------ bounds
\* Number of invocations of the script in one working directory.
MaxRuns == 2
\* Number of calendar days the invocations spread over.
MaxDays == 2
\* Decimal digits a full-precision value keeps beyond the exported ones.
ExtraDigits == 1

\* --------------------------------------------------------------- constants
\* round(df, 3): the number of decimals of every exported numeric column.
Decimals == 3

\* -------------------------------------------------------------------- text
xlsx == <<".", "x", "l", "s", "x">>

\* Python's  sub in s  for strings.
Contains(sub, s) ==
    \E i \in 1..(Len(s) - Len(sub) + 1) : SubSeq(s, i, i + Len(sub) - 1) = sub

s_CCO == <<"C", "C", "O">>
s_CO == <<"C", "O">>
s_bad == <<"C", "(">>
f_a == <<"a">> \o xlsx
f_b == <<"b">> \o xlsx
f_c == <<"c", ".", "x", "l", "s">>
f_n == <<"n">> \o xlsx

\* ----------------------------------------------------------------- numbers
\* A fixed-point value counts steps of 10^-(Decimals+ExtraDigits); Fine of
\* them make one step of the exported precision.
Fine == 10 ^ ExtraDigits

\* Cells of a table.  A "float" cell is the exact value num/den steps, a
\* "root" cell the exact value sqrt(num/den) steps, so that the mean and the
\* standard deviation of three values are held without loss until rounded.
StrCell(s) == [t |-> "str", s |-> s, num |-> 0, den |-> 1]
IntCell(n) == [t |-> "int", s |-> <<>>, num |-> n, den |-> 1]
FloatCell(n, d) == [t |-> "float", s |-> <<>>, num |-> n, den |-> d]
RootCell(n, d) == [t |-> "root", s |-> <<>>, num |-> n, den |-> d]

\* Nearest integer to n/d, ties to even (numpy.round), for n >= 0, d > 0.
RoundHalfEven(n, d) ==
    LET q == n \div d
        r == n % d
    IN  IF 2 * r < d THEN q
        ELSE IF 2 * r > d THEN q + 1
        ELSE IF q % 2 = 0 THEN q ELSE q + 1

\* Largest k with k*k*d <= n.
RECURSIVE FloorRoot(_, _, _)
FloorRoot(n, d, k) ==
    IF (k + 1) * (k + 1) * d <= n THEN FloorRoot(n, d, k + 1) ELSE k

\* Nearest integer to sqrt(n/d), ties to even.
RoundRoot(n, d) ==
    LET k == FloorRoot(n, d, 0)
        lhs == 4 * n
        rhs == (2 * k + 1) * (2 * k + 1) * d
    IN  IF lhs < rhs THEN k
        ELSE IF lhs > rhs THEN k + 1
        ELSE IF k % 2 = 0 THEN k ELSE k + 1

\* The representation of a number as text that str() and f"{}" produce for a
\* float that has been rounded to Decimals decimals: the integer part, a
\* point, and the decimals without trailing zeros (at least one digit).
Digit(n) == <<"0", "1", "2", "3", "4", "5", "6", "7", "8", "9">>[n + 1]

RECURSIVE IntStr(_)
IntStr(n) == IF n < 10 THEN <<Digit(n)>> ELSE IntStr(n \div 10) \o <<Digit(n % 10)>>

\* The Decimals digits of the fraction f, most significant first.
RECURSIVE FracDigits(_, _)
FracDigits(f, k) ==
    IF k = 0 THEN <<>> ELSE FracDigits(f \div 10, k - 1) \o <<Digit(f % 10)>>

RECURSIVE StripZeros(_)
StripZeros(ds) ==
    IF Len(ds) > 1 /\ ds[Len(ds)] = "0" THEN StripZeros(SubSeq(ds, 1, Len(ds) - 1))
    ELSE ds

\* cell is a float cell holding a whole number of exported steps.
FloatStr(cell) ==
    LET u == cell.num \div (cell.den * Fine)
        one == 10 ^ Decimals
    IN  IntStr(u \div one) \o <<".">> \o StripZeros(FracDigits(u % one, Decimals))

\* DataFrame.round(Decimals) on one cell: floats are rounded to the nearest
\* exported step, every other cell is left as it is.
Round3(cell) ==
    IF cell.t = "float"
      THEN FloatCell(Fine * RoundHalfEven(cell.num, cell.den * Fine), 1)
    ELSE IF cell.t = "root"
      THEN FloatCell(Fine * RoundRoot(cell.num, cell.den * Fine * Fine), 1)
    ELSE cell

\* numpy.mean of three float cells with denominator 1: (y1+y2+y3)/3, exact.
NpMean(y1, y2, y3) == FloatCell(y1.num + y2.num + y3.num, 3)

\* Sum of the squares of 3*(y_i - mean), that is 9 times the sum of the
\* squared deviations from the mean.
SumSqDev3(y1, y2, y3) ==
    LET s == y1.num + y2.num + y3.num
        d1 == 3 * y1.num - s
        d2 == 3 * y2.num - s
        d3 == 3 * y3.num - s
    IN  d1 * d1 + d2 * d2 + d3 * d3

\* The sample estimator (divisor 2): sqrt(sum of squared deviations / 2),
\* written over the denominator 54.
NpStdSample(y1, y2, y3) == RootCell(3 * SumSqDev3(y1, y2, y3), 54)

\* numpy.std of three values (ddof = 0): sqrt(sum of squared deviations / 3),
\* exact, written over the denominator 54 = 2 * 27.
NpStd(y1, y2, y3) == RootCell(2 * SumSqDev3(y1, y2, y3), 54)

\* ---------------------------------------------------- external libraries
\* RDKit.  Chem.MolFromSmiles returns a molecule for a structure it can
\* parse and None for one it cannot; for a str argument it does not raise.
\* It writes a parse error naming the string to the error log.
None == [ok |-> FALSE, mw |-> 0, nC |-> 0, nO |-> 0]

MolFromSmiles(smi) ==
    IF smi = s_CCO THEN [ok |-> TRUE, mw |-> 46069, nC |-> 2, nO |-> 1]
    ELSE IF smi = s_CO THEN [ok |-> TRUE, mw |-> 32042, nC |-> 1, nO |-> 1]
    ELSE None

MolFromSmilesRaises(smi) == FALSE

MolFromSmilesLog(smi) ==
    IF MolFromSmiles(smi).ok THEN {} ELSE {[k |-> "SMILES Parse Error", a |-> smi]}

\* MolWt of a molecule, in thousandths; MolWt(None) raises.
MolWt(mol) == mol.mw
\* A MolWt that returns a value for None.
MolWtNeverRaises(mol) == FALSE

MolWtRaises(mol) == ~mol.ok

\* Mordred.  The descriptors of one molecule; a descriptor that does not
\* apply to the molecule is an error.Missing object, not an exception.
DescriptorNames == {"nC", "nO", "MAXdO"}

ErrorCell(kind) == [t |-> kind, s |-> <<>>, num |-> 0, den |-> 1]

CalcRow(mol) ==
    IF mol.ok
      THEN [n \in DescriptorNames |->
              IF n = "nC" THEN IntCell(mol.nC)
              ELSE IF n = "nO" THEN IntCell(mol.nO)
              ELSE ErrorCell("Missing")]
      ELSE [n \in DescriptorNames |-> ErrorCell("Error")]

\* Calculator.pandas is given None for a structure that did not parse: it
\* may raise, or return a row of Error objects.
CalcMayRaise(mol) == ~mol.ok

\* The lambda of line 57: Error and Missing objects become NaN.
ErrorToNaN(x) ==
    IF x.t = "Error" \/ x.t = "Missing" THEN ErrorCell("nan") ELSE x

\* ------------------------------------------------------ loaded artifacts
Artifacts == {"model1", "model2", "model3", "pipeline", "ad"}

pipeline_feature_names_in == {"nC", "nO", "MAXdO"}
model1_feature_names_in == {"nC", "nO"}
model2_feature_names_in == {"nC"}
model3_feature_names_in == {"nC", "MAXdO"}

\* pipeline.transform on one row: imputes the missing values.
pipeline_transform(x) ==
    [n \in DOMAIN x |-> IF x[n].t = "nan" THEN 0 ELSE x[n].num]

\* The regressors: -log(IC50) M of a feature vector, in units of 10^-4.
model1_table(x) == IF x.nC = 2 THEN 60004 ELSE 59871
model2_table(x) == IF x.nC = 2 THEN 60004 ELSE 60012
model3_table(x) == IF x.nC = 2 THEN 60008 ELSE 59950

Steps(v4) == v4 * 10 ^ (ExtraDigits - 1)

model1_predict(x) == FloatCell(Steps(model1_table(x)), 1)
model2_predict(x) == FloatCell(Steps(model2_table(x)), 1)
model3_predict(x) == FloatCell(Steps(model3_table(x)), 1)

\* The applicability-domain classifier: 1 inside the domain, 0 outside.
ad_predict(x) == IF x.nC >= 2 THEN 1 ELSE 0

\* 10 ** -c for a prediction c, in units of 10^-10.
Pow10Neg(c) ==
    LET v4 == c.num \div 10 ^ (ExtraDigits - 1)
    IN  CASE v4 = 60004 -> 9990
          [] v4 = 60008 -> 9981
          [] v4 = 59871 -> 10301
          [] v4 = 60012 -> 9972
          [] v4 = 59950 -> 10115

\* (10**-(c))*mw_*1000 of lines 225, 229 and 233, in steps: the product of
\* 10^-10 units and thousandths, times 1000, counts units of 10^-10.
ToMgL(c, mw) ==
    FloatCell((Pow10Neg(c) * mw) \div 10 ^ (10 - Decimals - ExtraDigits), 1)

\* ------------------------------------------------------------------ tables
\* A table (DataFrame) is a sequence of rows; a row maps column names to
\* cells.  Assigning a column replaces a column of the same name.
Assign(row, name, cell) == (name :> cell) @@ row
Restrict(row, names) == [n \in names |-> row[n]]

c_ETR == "Predictions_ETR [-log(IC50) M]"
c_ETR_mg == "Predictions_ETR [mg/L]"
c_XGB == "Predictions_XGB [-log(IC50) M]"
c_XGB_mg == "Predictions_XGB [mg/L]"
c_GB == "Predictions_GB [-log(IC50) M]"
c_GB_mg == "Predictions_GB [mg/L]"
c_Cons == "Consensus [-log(IC50) M]"
c_Int == "Interval [-log(IC50) M]"
c_Cons_mg == "Consensus [mg/L]"
c_Int_mg == "Interval [mg/L]"
c_CU == "Consensus AND Uncertanty [mg/L]"
c_AD == "Applicability Domain"

SummaryColumns == {"SMILES", c_CU, c_AD}
ModelColumns == {c_ETR, c_ETR_mg, c_XGB, c_XGB_mg, c_GB, c_GB_mg}

\* The spreadsheets of the working directory.  a.xlsx has two auxiliary
\* columns, b.xlsx a row whose structure does not parse, c.xls is a
\* spreadsheet whose name does not end in .xlsx; n.xlsx does not exist.
Disk ==
    (f_a :> << [SMILES |-> StrCell(s_CCO), ID |-> StrCell(<<"m", "1">>),
                Exp |-> FloatCell(Steps(12346), 1), N |-> IntCell(7)],
               [SMILES |-> StrCell(s_CO), ID |-> StrCell(<<"m", "2">>),
                Exp |-> FloatCell(Steps(20000), 1), N |-> IntCell(8)] >>)
    @@ (f_b :> << [SMILES |-> StrCell(s_CCO)], [SMILES |-> StrCell(s_bad)] >>)
    @@ (f_c :> << [SMILES |-> StrCell(s_CO)] >>)

\* pd.read_excel raises FileNotFoundError for a path that does not exist.
read_excel_raises(path) == path \notin DOMAIN Disk
read_excel(path) == Disk[path]

\* ------------------------------------------------------------- the stages
\* files_importer, lines 153-155: the value of --smiles, or else the value
\* of --filename.  args is [smiles, filename], each [given, v].
input_value_of(args) == IF args.smiles.given THEN args.smiles.v ELSE args.filename.v

\* Lines 185-188: the table of the run.
IsSingle(input_value) == ~Contains(xlsx, input_value)
SingleTable(input_value) == << [SMILES |-> StrCell(input_value)] >>

\* check_smiles, lines 73-77: exits with status 1 exactly when
\* Chem.MolFromSmiles raises.  No line of the script calls it.
check_smiles(smiles) == IF MolFromSmilesRaises(smiles) THEN "exit 1" ELSE "return"

\* mordred_calculator, lines 45-58.  pd.concat(axis=1) joins the dataset and
\* the descriptors row by row on the index 0..N-1 that both carry; applymap
\* maps every cell of the result.
Mols(dataset) == [i \in 1..Len(dataset) |-> MolFromSmiles(dataset[i].SMILES.s)]

mordred_calculator(dataset) ==
    [i \in 1..Len(dataset) |->
        LET joined == dataset[i] @@ CalcRow(Mols(dataset)[i])
        IN  [c \in DOMAIN joined |-> ErrorToNaN(joined[c])]]

\* Lines 210-211, with rows returned in the opposite order.
TransformTableReversed(data) ==
    [i \in 1..Len(data) |->
        pipeline_transform(Restrict(data[Len(data) + 1 - i], pipeline_feature_names_in))]

\* Lines 210-211: pipeline.transform of the pipeline's features of each row.
TransformTable(data) ==
    [i \in 1..Len(data) |->
        pipeline_transform(Restrict(data[i], pipeline_feature_names_in))]

\* Lines 219-233 on one row: the three predictions and their conversions.
PredictRow(row, x, mw) ==
    LET p1 == model1_predict(Restrict(x, model1_feature_names_in))
        p2 == model2_predict(Restrict(x, model2_feature_names_in))
        p3 == model3_predict(Restrict(x, model3_feature_names_in))
        r1 == Assign(Assign(row, c_ETR, p1), c_ETR_mg, ToMgL(p1, mw))
        r2 == Assign(Assign(r1, c_XGB, p2), c_XGB_mg, ToMgL(p2, mw))
    IN  Assign(Assign(r2, c_GB, p3), c_GB_mg, ToMgL(p3, mw))

PredictTable(table, inp) ==
    [i \in 1..Len(table) |->
        PredictRow(table[i], inp[i], MolWt(MolFromSmiles(table[i].SMILES.s)))]

\* Lines 240-248 on one row.
AggregateCells(row) ==
    LET r1 == Assign(row, c_Cons, NpMean(row[c_ETR], row[c_XGB], row[c_GB]))
        r2 == Assign(r1, c_Int, NpStd(row[c_ETR], row[c_XGB], row[c_GB]))
        r3 == Assign(r2, c_Cons_mg, NpMean(row[c_ETR_mg], row[c_XGB_mg], row[c_GB_mg]))
    IN  Assign(r3, c_Int_mg, NpStd(row[c_ETR_mg], row[c_XGB_mg], row[c_GB_mg]))

\* Line 251: round(df, 3).
RoundRow(row) == [c \in DOMAIN row |-> Round3(row[c])]

\* Lines 240-248 computed from columns that were rounded first.
AggregateRowRoundedFirst(row) == AggregateCells(RoundRow(row))

AggregateRow(row) == AggregateCells(row)

\* Line 254: f"{str(y)} ± {i}".
FormatRow(row) ==
    Assign(row, c_CU,
           StrCell(FloatStr(row[c_Cons_mg]) \o <<" ", "±", " ">> \o FloatStr(row[c_Int_mg])))

\* Line 261: the classifier is given the features of the second model.
ClassifyRow(row, x) ==
    Assign(row, c_AD, IntCell(ad_predict(Restrict(x, model2_feature_names_in))))

\* Line 267: strftime("%d_%m_%Y") of day n of the month.
Pad2(n) == IF n < 10 THEN <<"0">> \o IntStr(n) ELSE IntStr(n)
Strftime(n) == Pad2(n) \o <<"_">> \o Pad2(11) \o <<"_">> \o IntStr(2026)

\* Line 272: the truth value of the --summary argument, None or a string.
TruthyIfGiven(summary) == summary.given

Truthy(summary) == summary.given /\ Len(summary.v) > 0

\* Lines 273 and 276: the name of the output file.
OutputName(summary, day) ==
    (IF Truthy(summary) THEN <<"Summary_predictions_">> ELSE <<"Predictions_">>)
        \o Strftime(day) \o xlsx

\* Lines 273 and 276: the table that is written.
OutputTable(summary, table) ==
    IF Truthy(summary)
      THEN [i \in 1..Len(table) |-> Restrict(table[i], SummaryColumns)]
      ELSE table

\* A writer that leaves a file of the same name as it is.
to_excel_keep(files, name, table) ==
    IF name \in DOMAIN files THEN files ELSE (name :> table) @@ files

\* DataFrame.to_excel: creates the file or replaces its content.
to_excel(files, name, table) == (name :> table) @@ files

\* ------------------------------------------------------------------- state
VARIABLES
    pc,          \* the position of the running invocation, "shell" before the first
    args,        \* the parsed command line: [smiles, filename, summary]
    df,          \* the table of the run
    data,        \* the table with the descriptors (line 202)
    data_input,  \* the transformed features (line 210)
    console,     \* what the invocation has printed or logged
    exitStatus,  \* the exit status of the invocation that ended last
    files,       \* the output files of the working directory, by name
    before,      \* the output files as the running invocation found them
    wrote,       \* the names the running invocation has passed to to_excel
    today,       \* the day of the month
    runs,        \* the number of invocations started
    trace        \* the stages the running invocation has entered, in order

vars == <<pc, args, df, data, data_input, console, exitStatus, files, before,
          wrote, today, runs, trace>>

Absent == [given |-> FALSE, v |-> <<>>]
Given(v) == [given |-> TRUE, v |-> v]

\* The command lines argparse accepts: exactly one of --smiles and
\* --filename, and --summary absent or with any string.
SmilesArgs == {s_CCO, s_CO, s_bad, f_a}
FileArgs == {f_a, f_b, f_c, f_n}
SummaryArgs == {Absent, Given(<<>>), Given(<<"0">>)}

CommandLines ==
    {[smiles |-> Given(s), filename |-> Absent, summary |-> m] :
        s \in SmilesArgs, m \in SummaryArgs}
    \cup {[smiles |-> Absent, filename |-> Given(f), summary |-> m] :
        f \in FileArgs, m \in SummaryArgs}

NoArgs == [smiles |-> Absent, filename |-> Absent, summary |-> Absent]

Msg(kind, arg) == [k |-> kind, a |-> arg]

Init ==
    /\ pc = "shell"
    /\ args = NoArgs
    /\ df = <<>>
    /\ data = <<>>
    /\ data_input = <<>>
    /\ console = {}
    /\ exitStatus = 0
    /\ files = <<>>
    /\ before = <<>>
    /\ wrote = {}
    /\ today = 1
    /\ runs = 0
    /\ trace = <<>>

\* An exception that nothing catches, raised in a stage after it printed
\* its messages: the traceback is printed and the interpreter exits with
\* status 1.
Unhandled(stage, printed, exc, arg) ==
    /\ pc' = "exit"
    /\ exitStatus' = 1
    /\ console' = console \cup printed \cup {Msg(exc, arg)}
    /\ trace' = Append(trace, stage)
    /\ UNCHANGED <<args, df, data, data_input, files, before, wrote, today, runs>>

\* Lines 174-177: the script is started; files_importer parses the command
\* line and echoes the input value.
Invoke(cl) ==
    /\ pc \in {"shell", "exit"}
    /\ runs < MaxRuns
    /\ pc' = "parsed"
    /\ args' = cl
    /\ df' = <<>>
    /\ data' = <<>>
    /\ data_input' = <<>>
    /\ console' = {Msg("Antioxidant Model", <<>>), Msg("Input value", input_value_of(cl))}
    /\ before' = files
    /\ wrote' = {}
    /\ runs' = runs + 1
    /\ trace' = <<>>
    /\ UNCHANGED <<exitStatus, files, today>>

\* Lines 185-186: the input value does not contain ".xlsx".
InputSingle ==
    /\ pc = "parsed"
    /\ IsSingle(input_value_of(args))
    /\ df' = SingleTable(input_value_of(args))
    /\ pc' = "input"
    /\ trace' = Append(trace, "resolver")
    /\ UNCHANGED <<args, data, data_input, console, exitStatus, files, before, wrote, today, runs>>

\* Lines 187-188: the input value contains ".xlsx" and the file is read.
InputFile ==
    /\ pc = "parsed"
    /\ ~IsSingle(input_value_of(args))
    /\ ~read_excel_raises(input_value_of(args))
    /\ df' = read_excel(input_value_of(args))
    /\ pc' = "input"
    /\ trace' = Append(trace, "resolver")
    /\ UNCHANGED <<args, data, data_input, console, exitStatus, files, before, wrote, today, runs>>

InputFileMissing ==
    /\ pc = "parsed"
    /\ ~IsSingle(input_value_of(args))
    /\ read_excel_raises(input_value_of(args))
    /\ Unhandled("resolver", {}, "FileNotFoundError", input_value_of(args))

\* Line 194: pipeline_model_importer unpickles the five artifacts.
LoadArtifacts ==
    /\ pc = "input"
    /\ pc' = "loaded"
    /\ trace' = Append(trace, "load")
    /\ UNCHANGED <<args, df, data, data_input, console, exitStatus, files, before, wrote, today, runs>>

\* One of the five files is missing or does not unpickle.
LoadArtifactsRaise(a) ==
    /\ pc = "input"
    /\ Unhandled("load", {}, "pickle.load raised", <<a>>)

\* Lines 201-202: mordred_calculator.  Every structure is parsed; one that
\* does not parse is logged and handed to the calculator as None.
ParseLogs == UNION {MolFromSmilesLog(df[i].SMILES.s) : i \in 1..Len(df)}

Descriptors ==
    /\ pc = "loaded"
    /\ data' = mordred_calculator(df)
    /\ console' = console \cup {Msg("Molecular descriptors calculation", <<>>)} \cup ParseLogs
    /\ pc' = "described"
    /\ trace' = Append(trace, "descriptors")
    /\ UNCHANGED <<args, df, data_input, exitStatus, files, before, wrote, today, runs>>

DescriptorsRaise ==
    /\ pc = "loaded"
    /\ \E i \in 1..Len(df) : CalcMayRaise(Mols(df)[i])
    /\ Unhandled("descriptors",
                 {Msg("Molecular descriptors calculation", <<>>)} \cup ParseLogs,
                 "calc.pandas raised", <<>>)

\* Lines 209-211: the pipeline transforms the descriptors.
Transform ==
    /\ pc = "described"
    /\ data_input' = TransformTable(data)
    /\ console' = console \cup {Msg("MDs tranformation", <<>>)}
    /\ pc' = "transformed"
    /\ trace' = Append(trace, "pipeline")
    /\ UNCHANGED <<args, df, data, exitStatus, files, before, wrote, today, runs>>

\* The pipeline rejects the table (a feature it was fit on is not among the
\* descriptors, or a value it cannot handle).
TransformRaise ==
    /\ pc = "described"
    /\ Unhandled("pipeline", {Msg("MDs tranformation", <<>>)},
                 "pipeline.transform raised", <<>>)

\* Lines 216-233: molecular weights, the three predictions, the conversions.
Predict ==
    /\ pc = "transformed"
    /\ \A i \in 1..Len(df) : ~MolWtRaises(MolFromSmiles(df[i].SMILES.s))
    /\ df' = PredictTable(df, data_input)
    /\ console' = console \cup {Msg("Model Assessment", <<>>)} \cup ParseLogs
    /\ pc' = "predicted"
    /\ trace' = Append(trace, "ensemble")
    /\ UNCHANGED <<args, data, data_input, exitStatus, files, before, wrote, today, runs>>

\* Line 219: MolWt is given None.
PredictMolWtRaise ==
    /\ pc = "transformed"
    /\ \E i \in 1..Len(df) : MolWtRaises(MolFromSmiles(df[i].SMILES.s))
    /\ Unhandled("ensemble", {Msg("Model Assessment", <<>>)} \cup ParseLogs,
                 "MolWt raised", <<>>)

\* A regressor rejects the features it is given.
PredictModelRaise(m) ==
    /\ pc = "transformed"
    /\ \A i \in 1..Len(df) : ~MolWtRaises(MolFromSmiles(df[i].SMILES.s))
    /\ Unhandled("ensemble", {Msg("Model Assessment", <<>>)} \cup ParseLogs,
                 "predict raised", <<m>>)

\* Lines 240-248: consensus and interval in both units.
Aggregate ==
    /\ pc = "predicted"
    /\ df' = [i \in 1..Len(df) |-> AggregateRow(df[i])]
    /\ pc' = "aggregated"
    /\ trace' = Append(trace, "aggregator")
    /\ UNCHANGED <<args, data, data_input, console, exitStatus, files, before, wrote, today, runs>>

\* Line 251.
Round ==
    /\ pc = "aggregated"
    /\ df' = [i \in 1..Len(df) |-> RoundRow(df[i])]
    /\ pc' = "rounded"
    /\ trace' = Append(trace, "round")
    /\ UNCHANGED <<args, data, data_input, console, exitStatus, files, before, wrote, today, runs>>

\* Line 254.
Format ==
    /\ pc = "rounded"
    /\ df' = [i \in 1..Len(df) |-> FormatRow(df[i])]
    /\ pc' = "formatted"
    /\ trace' = Append(trace, "format")
    /\ UNCHANGED <<args, data, data_input, console, exitStatus, files, before, wrote, today, runs>>

\* Line 261.
Classify ==
    /\ pc = "formatted"
    /\ df' = [i \in 1..Len(df) |-> ClassifyRow(df[i], data_input[i])]
    /\ pc' = "classified"
    /\ trace' = Append(trace, "ad")
    /\ UNCHANGED <<args, data, data_input, console, exitStatus, files, before, wrote, today, runs>>

ClassifyRaise ==
    /\ pc = "formatted"
    /\ Unhandled("ad", {}, "ad.predict raised", <<>>)

\* Lines 267-277: the table is written and printed; the script ends.
Export ==
    /\ pc = "classified"
    /\ files' = to_excel(files, OutputName(args.summary, today),
                         OutputTable(args.summary, df))
    /\ wrote' = wrote \cup {OutputName(args.summary, today)}
    /\ console' = console \cup {Msg("table", <<>>)}
    /\ pc' = "exit"
    /\ exitStatus' = 0
    /\ trace' = Append(trace, "export")
    /\ UNCHANGED <<args, df, data, data_input, before, today, runs>>

\* Midnight.
Tick ==
    /\ today < MaxDays
    /\ today' = today + 1
    /\ UNCHANGED <<pc, args, df, data, data_input, console, exitStatus, files, before,
                   wrote, runs, trace>>

Next ==
    \/ \E cl \in CommandLines : Invoke(cl)
    \/ InputSingle
    \/ InputFile
    \/ InputFileMissing
    \/ LoadArtifacts
    \/ \E a \in Artifacts : LoadArtifactsRaise(a)
    \/ Descriptors
    \/ DescriptorsRaise
    \/ Transform
    \/ TransformRaise
    \/ Predict
    \/ PredictMolWtRaise
    \/ \E m \in {"model1", "model2", "model3"} : PredictModelRaise(m)
    \/ Aggregate
    \/ Round
    \/ Format
    \/ Classify
    \/ ClassifyRaise
    \/ Export
    \/ Tick

Spec == Init /\ [][Next]_vars

\* ------------------------------------------------------------- properties
\* An invocation has ended, successfully or not.
Ended == pc = "exit"
Succeeded == pc = "exit" /\ exitStatus = 0
SingleMode == args.smiles.given
BatchMode == args.filename.given
SummaryAsked == args.summary.given /\ args.summary.v # <<>>

\* The file the invocation that ended wrote, when it wrote exactly one.
Written == files[CHOOSE n \in wrote : TRUE]

\* The transformed features of a structure, from the structure alone.
FeaturesOf(smi) ==
    LET d == CalcRow(MolFromSmiles(smi))
    IN  pipeline_transform([n \in pipeline_feature_names_in |-> ErrorToNaN(d[n])])

\* The full-precision predictions of the three regressors for a structure,
\* in -log(IC50) M and in mg/L.
RawLog(smi) ==
    << model1_predict(Restrict(FeaturesOf(smi), model1_feature_names_in)),
       model2_predict(Restrict(FeaturesOf(smi), model2_feature_names_in)),
       model3_predict(Restrict(FeaturesOf(smi), model3_feature_names_in)) >>

RawMgL(smi) ==
    [k \in 1..3 |-> ToMgL(RawLog(smi)[k], MolWt(MolFromSmiles(smi)))]

Abs(n) == IF n < 0 THEN 0 - n ELSE n

\* cell is a whole number of exported steps within half a step of the mean
\* of the three values y.
IsRoundedMean(cell, y) ==
    /\ cell.t = "float" /\ cell.den = 1 /\ cell.num % Fine = 0
    /\ 2 * Abs(3 * cell.num - (y[1].num + y[2].num + y[3].num)) <= 3 * Fine

\* cell is a whole number of exported steps within half a step of
\* sqrt(((y1-m)^2 + (y2-m)^2 + (y3-m)^2) / 3), m the mean of the three y.
\* With e_i = 3*y_i - (y1+y2+y3) the radicand is (e1^2+e2^2+e3^2) / 27.
IsRoundedPopulationStd(cell, y) ==
    LET sum == y[1].num + y[2].num + y[3].num
        e == [i \in 1..3 |-> 3 * y[i].num - sum]
        q == e[1] * e[1] + e[2] * e[2] + e[3] * e[3]
        lo == 2 * cell.num - Fine
        hi == 2 * cell.num + Fine
    IN  /\ cell.t = "float" /\ cell.den = 1 /\ cell.num % Fine = 0
        /\ cell.num >= 0
        /\ (lo <= 0 \/ 27 * lo * lo <= 4 * q)
        /\ 4 * q <= 27 * hi * hi

\* C1: an invocation with --smiles S whose S is not a valid molecule ends
\* with exit status 1, having printed a diagnostic that names S, and leaves
\* every output file as it found it.
ClaimC1 ==
    (Ended /\ SingleMode /\ ~MolFromSmiles(args.smiles.v).ok) =>
        /\ exitStatus = 1
        /\ \E m \in console : m.k # "Input value" /\ m.a = args.smiles.v
        /\ wrote = {}
        /\ files = before

\* C2: the table of the run is one row holding S when --smiles S was given,
\* and the rows of the file P when --filename P was given.
ClaimC2 ==
    pc = "input" =>
        /\ SingleMode => df = SingleTable(args.smiles.v)
        /\ BatchMode =>
              /\ ~read_excel_raises(args.filename.v)
              /\ df = read_excel(args.filename.v)

TheoremC4 ==
    (Succeeded /\ BatchMode) =>
        LET inp == Disk[args.filename.v]
        IN  /\ Len(Written) = Len(inp)
            /\ \A i \in 1..Len(inp) :
                  LET smi == inp[i].SMILES.s
                  IN  /\ Written[i].SMILES = inp[i].SMILES
                      /\ Written[i][c_AD] =
                           IntCell(ad_predict(Restrict(FeaturesOf(smi), model2_feature_names_in)))
                      /\ ~SummaryAsked =>
                           /\ Written[i][c_ETR] = Round3(RawLog(smi)[1])
                           /\ Written[i][c_XGB] = Round3(RawLog(smi)[2])
                           /\ Written[i][c_GB] = Round3(RawLog(smi)[3])

WitnessC4 ==
    /\ Succeeded /\ BatchMode
    /\ Len(Written) = 2
    /\ Written[1].SMILES # Written[2].SMILES
    /\ Written[1][c_AD] # Written[2][c_AD]

\* C5: in the full output the consensus of every row, in both units, is
\* the mean of the three full-precision predictions of the row's structure
\* rounded to 3 decimals.
TheoremC5 ==
    (Succeeded /\ ~SummaryAsked) =>
        \A i \in 1..Len(Written) :
            /\ IsRoundedMean(Written[i][c_Cons], RawLog(Written[i].SMILES.s))
            /\ IsRoundedMean(Written[i][c_Cons_mg], RawMgL(Written[i].SMILES.s))

\* A row whose consensus differs from the mean of its rounded predictions.
WitnessC5 ==
    /\ Succeeded /\ ~SummaryAsked
    /\ \E i \in 1..Len(Written) :
          ~IsRoundedMean(Written[i][c_Cons],
                         <<Written[i][c_ETR], Written[i][c_XGB], Written[i][c_GB]>>)

\* C6: in the full output the interval of every row, in both units, is the
\* population standard deviation (divisor 3) of the three full-precision
\* predictions of the row's structure, rounded to 3 decimals.
TheoremC6 ==
    (Succeeded /\ ~SummaryAsked) =>
        \A i \in 1..Len(Written) :
            /\ IsRoundedPopulationStd(Written[i][c_Int], RawLog(Written[i].SMILES.s))
            /\ IsRoundedPopulationStd(Written[i][c_Int_mg], RawMgL(Written[i].SMILES.s))

WitnessC6 ==
    /\ Succeeded /\ ~SummaryAsked
    /\ \E i \in 1..Len(Written) :
          /\ Written[i][c_Int].num > 0
          /\ RawMgL(Written[i].SMILES.s)[1] # RawMgL(Written[i].SMILES.s)[2]

\* C7: in the full output of a run on the file P every cell of every column
\* of P other than SMILES has the value it has in P, and the predictions
\* are those of the row's structure alone.
ClaimC7 ==
    (Succeeded /\ BatchMode /\ ~SummaryAsked) =>
        LET inp == Disk[args.filename.v]
        IN  \A i \in 1..Len(inp) :
              /\ \A c \in DOMAIN inp[i] \ {"SMILES"} : Written[i][c] = inp[i][c]
              /\ Written[i][c_ETR] = Round3(RawLog(inp[i].SMILES.s)[1])
              /\ Written[i][c_XGB] = Round3(RawLog(inp[i].SMILES.s)[2])
              /\ Written[i][c_GB] = Round3(RawLog(inp[i].SMILES.s)[3])

\* C8: a run that fails at any stage leaves every output file as it found
\* it; nothing is written before the run ends; and a run that wrote a file
\* entered every stage once, in order, with a structure that parses in
\* every row.
AllStages ==
    << "resolver", "load", "descriptors", "pipeline", "ensemble", "aggregator",
       "round", "format", "ad", "export" >>

TheoremC8 ==
    /\ (pc # "exit" \/ exitStatus = 1) => (files = before /\ wrote = {})
    /\ (wrote # {} \/ files # before) =>
          /\ Succeeded
          /\ trace = AllStages
          /\ \A i \in 1..Len(df) : MolFromSmiles(df[i].SMILES.s).ok

\* A batch run that got past the descriptors and the pipeline and then
\* failed on a row, with an earlier run's output in the directory.
WitnessC8 ==
    /\ Ended /\ exitStatus = 1 /\ BatchMode
    /\ Len(df) = 2
    /\ Len(trace) >= 5
    /\ DOMAIN files # {}

Rank(stage) ==
    CASE stage = "resolver" -> 1
      [] stage = "validator" -> 2
      [] stage = "descriptors" -> 3
      [] stage = "pipeline" -> 4
      [] stage = "ensemble" -> 5
      [] stage = "aggregator" -> 6
      [] stage = "ad" -> 7
      [] stage \in {"round", "format", "export"} -> 8
      [] OTHER -> 0

Entered(stage) == \E i \in 1..Len(trace) : trace[i] = stage

ClaimC10 ==
    /\ \A i, j \in 1..Len(trace) :
          (i < j /\ Rank(trace[i]) > 0 /\ Rank(trace[j]) > 0) =>
              /\ trace[i] # trace[j]
              /\ Rank(trace[i]) <= Rank(trace[j])
    /\ (SingleMode /\ Entered("descriptors")) => Entered("validator")
    /\ (Entered("round") \/ Entered("format")) => Entered("ad")

====
